---- MODULE Spec2Model ----
(***************************************************************************)
(* Model of the SageMaker inference handlers generated by                  *)
(* create_placeholder_model.py (model_fn / input_fn / predict_fn /         *)
(* output_fn) and of the client in test_endpoint.py that drives them.      *)
(*                                                                         *)
(* Python values are tagged records.  Real numbers are kept in tenths      *)
(* (0.5 is PyFloat(5)); request and response bodies are token sequences,  *)
(* so json.dumps and json.loads are an encoder and a parser.               *)
(***************************************************************************)
EXTENDS Integers, Sequences, FiniteSets, TLC

\* ------------------------------------------------------------------------
\* Bounds of the model
\* ------------------------------------------------------------------------
MaxContacts == 2

\* ------------------------------------------------------------------------
\* Python values
\* ------------------------------------------------------------------------
PyInt(i)   == [t |-> "int",   n |-> i, s |-> "", a |-> <<>>, m |-> <<>>]
PyFloat(i) == [t |-> "float", n |-> i, s |-> "", a |-> <<>>, m |-> <<>>]
Null     == [t |-> "null",  n |-> 0, s |-> "", a |-> <<>>, m |-> <<>>]
Str(x)   == [t |-> "str",   n |-> 0, s |-> x,  a |-> <<>>, m |-> <<>>]
List(xs) == [t |-> "list",  n |-> 0, s |-> "", a |-> xs,   m |-> <<>>]
\* a dict is the sequence of its items in insertion order
Dict(es) == [t |-> "dict",  n |-> 0, s |-> "", a |-> <<>>, m |-> es]
Item(k, v) == [key |-> k, val |-> v]

IsNumber(v) == v.t \in {"int", "float"}
\* the numeric value of a number, in tenths
Tenths(v) == IF v.t = "int" THEN 10 * v.n ELSE v.n

\* ------------------------------------------------------------------------
\* Exceptions
\* ------------------------------------------------------------------------
NoError == [cls |-> "", msg |-> ""]
Raise(c, text) == [cls |-> c, msg |-> text]

\* dict membership, dict[key], dict.get(key, default)
HasKey(d, k) == \E i \in 1..Len(d.m) : d.m[i].key = k
GetItem(d, k) == d.m[CHOOSE i \in 1..Len(d.m) : d.m[i].key = k].val
dict_get(d, k, default) == IF HasKey(d, k) THEN GetItem(d, k) ELSE default
\* d[k] = v: replaces the value of an existing key, appends a new one
SetItem(es, k, v) ==
    IF \E i \in 1..Len(es) : es[i].key = k
    THEN [i \in 1..Len(es) |-> IF es[i].key = k THEN Item(k, v) ELSE es[i]]
    ELSE Append(es, Item(k, v))

\* ------------------------------------------------------------------------
\* JSON text: a body is a sequence of tokens
\* ------------------------------------------------------------------------
Tok(kind, str, num) == [k |-> kind, s |-> str, n |-> num]
Punct(c) == Tok("punct", c, 0)
\* a bare word that is no JSON literal, as in the text  not json
Word(w)  == Tok("word", w, 0)

RECURSIVE json_dumps(_)
RECURSIVE DumpItems(_, _)
RECURSIVE DumpMembers(_, _)
DumpItems(xs, i) ==
    IF i > Len(xs) THEN <<>>
    ELSE (IF i > 1 THEN <<Punct(",")>> ELSE <<>>)
         \o json_dumps(xs[i]) \o DumpItems(xs, i + 1)
DumpMembers(es, i) ==
    IF i > Len(es) THEN <<>>
    ELSE (IF i > 1 THEN <<Punct(",")>> ELSE <<>>)
         \o <<Tok("string", es[i].key, 0), Punct(":")>>
         \o json_dumps(es[i].val) \o DumpMembers(es, i + 1)
json_dumps(v) ==
    CASE v.t = "int"   -> <<Tok("int", "", v.n)>>
      [] v.t = "float" -> <<Tok("float", "", v.n)>>
      [] v.t = "null"  -> <<Tok("null", "", 0)>>
      [] v.t = "str"   -> <<Tok("string", v.s, 0)>>
      [] v.t = "list"  -> <<Punct("[")>> \o DumpItems(v.a, 1) \o <<Punct("]")>>
      [] v.t = "dict"  -> <<Punct("{")>> \o DumpMembers(v.m, 1) \o <<Punct("}")>>

\* the result of parsing from position i: the value and the next position
Parsed(v, j) == [ok |-> TRUE, val |-> v, next |-> j]
ParseFail == [ok |-> FALSE, val |-> Null, next |-> 0]
IsTok(toks, i, c) == i <= Len(toks) /\ toks[i] = Punct(c)

RECURSIVE ParseValue(_, _)
RECURSIVE ParseItems(_, _, _)
RECURSIVE ParseMembers(_, _, _)
\* after "[" or ",": one value, then "," or "]"
ParseItems(toks, i, acc) ==
    LET r == ParseValue(toks, i) IN
    IF ~r.ok THEN ParseFail
    ELSE IF IsTok(toks, r.next, ",")
         THEN ParseItems(toks, r.next + 1, Append(acc, r.val))
    ELSE IF IsTok(toks, r.next, "]")
         THEN Parsed(List(Append(acc, r.val)), r.next + 1)
    ELSE ParseFail
\* after "{" or ",": "key" ":" value, then "," or "}"
ParseMembers(toks, i, acc) ==
    IF ~(i + 1 <= Len(toks) /\ toks[i].k = "string" /\ toks[i + 1] = Punct(":"))
    THEN ParseFail
    ELSE LET r == ParseValue(toks, i + 2) IN
         IF ~r.ok THEN ParseFail
         ELSE IF IsTok(toks, r.next, ",")
              THEN ParseMembers(toks, r.next + 1, SetItem(acc, toks[i].s, r.val))
         ELSE IF IsTok(toks, r.next, "}")
              THEN Parsed(Dict(SetItem(acc, toks[i].s, r.val)), r.next + 1)
         ELSE ParseFail
ParseValue(toks, i) ==
    IF i > Len(toks) THEN ParseFail
    ELSE LET tk == toks[i] IN
         CASE tk.k = "int"    -> Parsed(PyInt(tk.n), i + 1)
           [] tk.k = "float"  -> Parsed(PyFloat(tk.n), i + 1)
           [] tk.k = "null"   -> Parsed(Null, i + 1)
           [] tk.k = "string" -> Parsed(Str(tk.s), i + 1)
           [] tk = Punct("[") ->
                IF IsTok(toks, i + 1, "]") THEN Parsed(List(<<>>), i + 2)
                ELSE ParseItems(toks, i + 1, <<>>)
           [] tk = Punct("{") ->
                IF IsTok(toks, i + 1, "}") THEN Parsed(Dict(<<>>), i + 2)
                ELSE ParseMembers(toks, i + 1, <<>>)
           [] OTHER -> ParseFail

\* json.loads reporting a syntax error as a plain ValueError
json_loads_ValueError(toks) ==
    LET r == ParseValue(toks, 1) IN
    IF r.ok /\ r.next = Len(toks) + 1
    THEN [err |-> NoError, val |-> r.val]
    ELSE [err |-> Raise("ValueError", "Expecting value"), val |-> Null]

\* json.loads: the whole text must be one value; otherwise JSONDecodeError
json_loads(toks) ==
    LET r == ParseValue(toks, 1) IN
    IF r.ok /\ r.next = Len(toks) + 1
    THEN [err |-> NoError, val |-> r.val]
    ELSE [err |-> Raise("JSONDecodeError", "Expecting value"), val |-> Null]

\* ------------------------------------------------------------------------
\* Python operators used by input_fn
\* ------------------------------------------------------------------------
Ok(v) == [err |-> NoError, val |-> v]
Failed(e) == [err |-> e, val |-> Null]

\* k in s for two strings: k is a substring of s
StrContains(s, k) ==
    \/ Len(k) = 0
    \/ \E i \in 1..(Len(s) - Len(k) + 1) : SubSeq(s, i, i + Len(k) - 1) = k

\* key in v
py_in(k, v) ==
    CASE v.t = "dict" -> Ok(HasKey(v, k))
      [] v.t = "list" -> Ok(\E i \in 1..Len(v.a) : v.a[i] = Str(k))
      [] v.t = "str"  -> Ok(StrContains(v.s, k))
      [] OTHER -> Failed(Raise("TypeError", "argument is not iterable"))

\* v[k] for a str key k, reached only when  k in v  held
py_getitem(v, k) ==
    IF v.t = "dict" THEN Ok(GetItem(v, k))
    ELSE Failed(Raise("TypeError", "indices must be integers"))

\* for x in v: the items of a list, the keys of a dict, the characters of a
\* str
py_iter(v) ==
    CASE v.t = "list" -> Ok(v.a)
      [] v.t = "dict" -> Ok([i \in 1..Len(v.m) |-> Str(v.m[i].key)])
      [] v.t = "str"  -> Ok([i \in 1..Len(v.s) |-> Str(SubSeq(v.s, i, i))])
      [] OTHER -> Failed(Raise("TypeError", "object is not iterable"))

\* ------------------------------------------------------------------------
\* numpy.array (numpy 1.24)
\* ------------------------------------------------------------------------
NFeatures == 3

RECURSIVE ShapeOf(_)
\* the shape of a nested list; a ragged nesting has none
ShapeOf(v) ==
    IF v.t # "list" THEN [ok |-> TRUE, shape |-> <<>>]
    ELSE IF Len(v.a) = 0 THEN [ok |-> TRUE, shape |-> <<0>>]
    ELSE LET subs == [i \in 1..Len(v.a) |-> ShapeOf(v.a[i])] IN
         IF \A i \in 1..Len(v.a) : subs[i].ok /\ subs[i].shape = subs[1].shape
         THEN [ok |-> TRUE, shape |-> <<Len(v.a)>> \o subs[1].shape]
         ELSE [ok |-> FALSE, shape |-> <<>>]

RECURSIVE LeafTypes(_)
LeafTypes(v) ==
    IF v.t = "list" THEN UNION {LeafTypes(v.a[i]) : i \in 1..Len(v.a)}
    ELSE {v.t}

\* the common dtype of the leaves (an empty array is float64).  Arrays mixing
\* strings with numbers do not occur in the model.
DTypeOf(v) ==
    LET ts == LeafTypes(v) IN
    IF ts # {} /\ ts \subseteq {"int"} THEN "int64"
    ELSE IF ts \subseteq {"int", "float"} THEN "float64"
    ELSE IF ts \subseteq {"str"} THEN "str"
    ELSE "object"

RECURSIVE Cast(_, _)
\* the leaves converted to the dtype: an int in a float64 array becomes a float
Cast(v, dtype) ==
    IF v.t = "list" THEN List([i \in 1..Len(v.a) |-> Cast(v.a[i], dtype)])
    ELSE IF dtype = "float64" /\ v.t = "int" THEN PyFloat(Tenths(v))
    ELSE v

NoArray == [dtype |-> "", shape |-> <<>>, data |-> Null]
np_array(v) ==
    LET sh == ShapeOf(v) IN
    IF ~sh.ok
    THEN [err |-> Raise("ValueError", "inhomogeneous shape"), val |-> NoArray]
    ELSE [err |-> NoError,
          val |-> [dtype |-> DTypeOf(v), shape |-> sh.shape,
                   data |-> Cast(v, DTypeOf(v))]]

\* len(array) of an array of at least one dimension
NRows(X) == X.shape[1]

\* ------------------------------------------------------------------------
\* input_fn
\* ------------------------------------------------------------------------
JSON == "application/json"
DefaultDayOfWeek == 0
DefaultHourOfDay == 12
\* 0.5, in tenths
DefaultPreviousAnswerRate == 5

\* the row of a contact with 0 as the default of hour_of_day
ContactRow_HourDefault0(contact) ==
    List(<<dict_get(contact, "day_of_week", PyInt(DefaultDayOfWeek)),
           dict_get(contact, "hour_of_day", PyInt(0)),
           dict_get(contact, "previous_answer_rate",
                    PyFloat(DefaultPreviousAnswerRate))>>)

\* contact.get(...) of a contact; only a dict has .get
ContactRow(contact) ==
    List(<<dict_get(contact, "day_of_week", PyInt(DefaultDayOfWeek)),
           dict_get(contact, "hour_of_day", PyInt(DefaultHourOfDay)),
           dict_get(contact, "previous_answer_rate",
                    PyFloat(DefaultPreviousAnswerRate))>>)

\* the loop building the rows last contact first
BatchFeatures_Reversed(contacts) ==
    IF \E i \in 1..Len(contacts) : contacts[i].t # "dict"
    THEN Failed(Raise("AttributeError", "object has no attribute 'get'"))
    ELSE Ok(List([i \in 1..Len(contacts) |->
                    ContactRow(contacts[Len(contacts) + 1 - i])]))

\* the loop skipping the entries that have no .get
BatchFeatures_Skipping(contacts) ==
    LET keep == SelectSeq(contacts, LAMBDA c : c.t = "dict") IN
    Ok(List([i \in 1..Len(keep) |-> ContactRow(keep[i])]))

\* the loop over input_data['contacts']: it raises at the first entry that
\* has no .get
BatchFeatures(contacts) ==
    IF \E i \in 1..Len(contacts) : contacts[i].t # "dict"
    THEN Failed(Raise("AttributeError", "object has no attribute 'get'"))
    ELSE Ok(List([i \in 1..Len(contacts) |-> ContactRow(contacts[i])]))

\* the single row with hour_of_day clamped to 0..23
SingleFeatures_Clamped(input_data) ==
    LET f == py_getitem(input_data, "features") IN
    IF f.err # NoError THEN [err |-> f.err, val |-> NoArray]
    ELSE IF f.val.t = "list" /\ Len(f.val.a) >= 2 /\ f.val.a[2].t = "int"
              /\ f.val.a[2].n > 23
         THEN np_array(List(<<List([f.val.a EXCEPT ![2] = PyInt(23)])>>))
         ELSE np_array(List(<<f.val>>))

SingleFeatures(input_data) ==
    LET f == py_getitem(input_data, "features") IN
    IF f.err # NoError THEN [err |-> f.err, val |-> NoArray]
    ELSE np_array(List(<<f.val>>))

ContactsFeatures(input_data) ==
    LET c == py_getitem(input_data, "contacts") IN
    IF c.err # NoError THEN [err |-> c.err, val |-> NoArray]
    ELSE LET it == py_iter(c.val) IN
         IF it.err # NoError THEN [err |-> it.err, val |-> NoArray]
         ELSE LET rows == BatchFeatures(it.val) IN
              IF rows.err # NoError THEN [err |-> rows.err, val |-> NoArray]
              ELSE np_array(rows.val)

input_fn(body, ctype) ==
    IF ctype # JSON
    THEN [err |-> Raise("ValueError", "Unsupported content type"),
          val |-> NoArray]
    ELSE LET p == json_loads(body) IN
         IF p.err # NoError THEN [err |-> p.err, val |-> NoArray]
         ELSE LET hasF == py_in("features", p.val) IN
              IF hasF.err # NoError THEN [err |-> hasF.err, val |-> NoArray]
              ELSE IF hasF.val THEN SingleFeatures(p.val)
              ELSE LET hasC == py_in("contacts", p.val) IN
                   IF hasC.val THEN ContactsFeatures(p.val)
                   ELSE [err |-> Raise("ValueError",
                                  "Input must contain 'features' or 'contacts' key"),
                         val |-> NoArray]

\* ------------------------------------------------------------------------
\* The classifier: RandomForestClassifier(n_estimators=10) fitted on rows of
\* NFeatures features with the labels 10, 14 and 19 (scikit-learn 1.2)
\* ------------------------------------------------------------------------
n_estimators == 10
\* classes_, sorted
Classes == <<10, 14, 19>>
RECURSIVE SeqSum(_, _)
SeqSum(v, i) == IF i > Len(v) THEN 0 ELSE v[i] + SeqSum(v, i + 1)
\* Votes of the trees for the classes, one tuple per row: each tree votes for
\* one class, so a tuple is any split of the n_estimators trees among the
\* classes.  What the fitted trees vote for a row is not decided by the
\* source.
Votes ==
    {v \in [1..Len(Classes) -> 0..n_estimators] : SeqSum(v, 1) = n_estimators}

\* the validation predict and predict_proba apply to X: it is converted to
\* float, and must be a 2-D array without NaN of at least one sample and
\* NFeatures features
CheckX(X) ==
    IF "dict" \in LeafTypes(X.data)
    THEN Raise("TypeError", "float() argument must be a string or a real number")
    ELSE IF "str" \in LeafTypes(X.data)
    THEN Raise("ValueError", "could not convert string to float")
    ELSE IF Len(X.shape) # 2
    THEN Raise("ValueError", "Expected 2D array")
    ELSE IF "null" \in LeafTypes(X.data)
    THEN Raise("ValueError", "Input X contains NaN")
    ELSE IF X.shape[1] = 0
    THEN Raise("ValueError", "Found array with 0 sample(s)")
    ELSE IF X.shape[2] # NFeatures
    THEN Raise("ValueError", "X has a different number of features")
    ELSE NoError

\* a row as the classifier reads it (cast to float)
RowKey(row) == [i \in 1..Len(row.a) |-> Tenths(row.a[i])]
RowKeys(X) == {RowKey(X.data.a[k]) : k \in 1..NRows(X)}

SeqMax(d) == CHOOSE x \in {d[i] : i \in 1..Len(d)} :
                 \A i \in 1..Len(d) : d[i] <= x
\* numpy.argmax: the first index of the maximum
ArgMax(d) == CHOOSE i \in 1..Len(d) :
                 d[i] = SeqMax(d) /\ \A j \in 1..(i - 1) : d[j] < d[i]

\* model.predict_proba(X): the share of the trees voting for each class,
\* in tenths; forest maps a row to the votes it gets
model_predict_proba(X, forest) ==
    [k \in 1..NRows(X) |->
        LET v == forest[RowKey(X.data.a[k])] IN
        [c \in 1..Len(v) |-> PyFloat((v[c] * 10) \div n_estimators)]]

\* model.predict(X): the class of the highest probability
model_predict(X, forest) ==
    [k \in 1..NRows(X) |->
        PyInt(Classes[ArgMax(forest[RowKey(X.data.a[k])])])]

NoPrediction == [predictions |-> <<>>, probabilities |-> <<>>]
predict_fn(input_data, forest) ==
    IF CheckX(input_data) # NoError
    THEN [err |-> CheckX(input_data), val |-> NoPrediction]
    ELSE [err |-> NoError,
          val |-> [predictions |-> model_predict(input_data, forest),
                   probabilities |-> model_predict_proba(input_data, forest)]]

\* ------------------------------------------------------------------------
\* output_fn
\* ------------------------------------------------------------------------
\* the confidence taken from the first class instead of the maximum
PyMax_First(probs) == PyFloat(Tenths(probs[1]))

\* float(max(probs))
PyMax(probs) == PyFloat(SeqMax([i \in 1..Len(probs) |-> Tenths(probs[i])]))

Confidence(probabilities) ==
    [i \in 1..Len(probabilities) |-> PyMax(probabilities[i])]

output_fn(prediction, acc) ==
    IF acc = JSON
    THEN [err |-> NoError,
          val |-> json_dumps(Dict(<<
                    Item("optimal_hours", List(prediction.predictions)),
                    Item("confidence",
                         List(Confidence(prediction.probabilities)))>>))]
    ELSE [err |-> Raise("ValueError", "Unsupported accept type"),
          val |-> <<>>]

\* ------------------------------------------------------------------------
\* The client (test_endpoint.py) and the requests it sends
\* ------------------------------------------------------------------------
DayValues  == {PyInt(1), PyInt(-2)}
HourValues == {PyInt(10), PyInt(99)}
RateValues == {PyFloat(5), PyFloat(15), PyInt(1)}
WellFormedRows ==
    {List(<<d, h, r>>) : d \in DayValues, h \in HourValues, r \in RateValues}
\* features values of the wrong structure
MalformedFeatures ==
    { PyInt(5), Null, Str("x"), Dict(<<Item("day_of_week", PyInt(1))>>),
      List(<<>>), List(<<PyInt(1), PyInt(10)>>),
      List(<<PyInt(1), PyInt(10), PyFloat(5), PyInt(2)>>),
      List(<<PyInt(1), List(<<PyInt(10)>>), PyFloat(5)>>) }
SinglePayloads ==
    {Dict(<<Item("features", f)>>) : f \in WellFormedRows \cup MalformedFeatures}

Field(k, vs) == {<<>>} \cup {<<Item(k, v)>> : v \in vs}
\* contacts with any of the three keys missing, sent one to a batch
MappingContacts ==
    {Dict(d \o h \o r) :
        d \in Field("day_of_week", {PyInt(3)}),
        h \in Field("hour_of_day", {PyInt(30)}),
        r \in Field("previous_answer_rate", {PyFloat(3)})}
\* the contacts of the longer batches: no key, one key, all keys; they give
\* two different rows
CoreContacts ==
    { Dict(<<>>),
      Dict(<<Item("hour_of_day", PyInt(30))>>),
      Dict(<<Item("day_of_week", PyInt(0)), Item("hour_of_day", PyInt(30)),
             Item("previous_answer_rate", PyFloat(5))>>) }
\* with an entry that is no mapping
ContactValues == CoreContacts \cup {PyInt(7)}
SeqsUpTo(S, n) == UNION {[1..k -> S] : k \in 0..n}
BatchPayloads ==
    {Dict(<<Item("contacts", List(cs))>>) : cs \in SeqsUpTo(ContactValues, MaxContacts)}
    \cup {Dict(<<Item("contacts", List(<<c>>))>>) : c \in MappingContacts}
    \cup {Dict(<<Item("contacts", c)>>) :
             c \in {Null, Str("x"), Str("ab"), Str(""), Dict(<<>>)}}
OtherPayloads ==
    { Dict(<<>>),
      Dict(<<Item("data", List(<<PyInt(1), PyInt(2), PyInt(3)>>))>>),
      Dict(<<Item("contacts", List(<<Dict(<<>>)>>)),
             Item("features", List(<<PyInt(1), PyInt(10), PyFloat(5)>>))>>),
      PyInt(5), Null,
      List(<<PyInt(1), PyInt(2), PyInt(3)>>), List(<<Str("features")>>) }
\* the payloads that are no str
Payloads == SinglePayloads \cup BatchPayloads \cup OtherPayloads

\* str payloads that are no JSON text: not json, the empty str, a cut-off
\* object, an object without its colon, text after the value
RawBodies ==
    { <<Word("not"), Word("json")>>,
      <<>>,
      <<Punct("{"), Tok("string", "features", 0), Punct(":"), Punct("["),
        Tok("int", "", 1), Punct(",")>>,
      <<Punct("{"), Tok("string", "features", 0), Tok("int", "", 1), Punct("}")>>,
      <<Punct("{"), Punct("}"), Punct("}")>> }

ContentTypes == {JSON, "text/csv"}

\* str payloads that are the JSON text of a string, quotes included
QuotedBodies ==
    { <<Tok("string", "hello", 0)>>,
      <<Tok("string", "features", 0)>>,
      <<Tok("string", "my features", 0)>>,
      <<Tok("string", "contacts x", 0)>> }

\* what the client passes as payload: a str (given by its text) is sent as
\* it is, anything else through json.dumps
Sendable == [isstr : {FALSE}, val : Payloads, text : {<<>>}]
              \cup [isstr : {TRUE}, val : {Null}, text : RawBodies \cup QuotedBodies]
Body(p) == IF p.isstr THEN p.text ELSE json_dumps(p.val)

\* ------------------------------------------------------------------------
\* State
\* ------------------------------------------------------------------------
VARIABLES
    pc,            \* where the request is in the pipeline
    payload,       \* what the client passed to invoke_endpoint
    request_body,  \* the body on the wire
    content_type,
    accept,
    input_data,    \* the array input_fn returned
    forest,        \* the loaded model's votes for the rows it was asked about
    prediction,    \* what predict_fn returned
    response,      \* the body output_fn returned
    error          \* the exception that ended the request

vars == <<pc, payload, request_body, content_type, accept, input_data,
          forest, prediction, response, error>>

NoPayload == [isstr |-> TRUE, val |-> Null, text |-> <<>>]

Init ==
    /\ pc = "cold"
    /\ payload = NoPayload
    /\ request_body = <<>>
    /\ content_type = ""
    /\ accept = ""
    /\ input_data = NoArray
    /\ forest = <<>>
    /\ prediction = NoPrediction
    /\ response = <<>>
    /\ error = NoError

\* model_fn: the container loads model.pkl before it serves a request
ModelFn ==
    /\ pc = "cold"
    /\ pc' = "idle"
    /\ UNCHANGED <<payload, request_body, content_type, accept, input_data,
                   forest, prediction, response, error>>

\* client.invoke_endpoint(ContentType=..., Body=...)
Invoke ==
    /\ pc = "idle"
    /\ \E p \in Sendable, ct \in ContentTypes, ac \in ContentTypes :
          /\ payload' = p
          /\ request_body' = Body(p)
          /\ content_type' = ct
          /\ accept' = ac
    /\ pc' = "received"
    /\ UNCHANGED <<input_data, forest, prediction, response, error>>

InputFn ==
    /\ pc = "received"
    /\ LET r == input_fn(request_body, content_type) IN
          /\ input_data' = r.val
          /\ error' = r.err
          /\ pc' = IF r.err = NoError THEN "normalized" ELSE "failed"
    /\ UNCHANGED <<payload, request_body, content_type, accept, forest,
                   prediction, response>>

\* predict_fn: it raises when the classifier rejects the matrix; otherwise
\* what the trees vote for a row is a function of the row
PredictFn ==
    /\ pc = "normalized"
    /\ IF CheckX(input_data) # NoError
       THEN /\ error' = predict_fn(input_data, forest).err
            /\ pc' = "failed"
            /\ UNCHANGED <<forest, prediction>>
       ELSE /\ \E f \in [RowKeys(input_data) -> Votes] :
                  /\ forest' = f
                  /\ prediction' = predict_fn(input_data, f).val
            /\ pc' = "predicted"
            /\ UNCHANGED error
    /\ UNCHANGED <<payload, request_body, content_type, accept, input_data,
                   response>>

OutputFn ==
    /\ pc = "predicted"
    /\ LET r == output_fn(prediction, accept) IN
          /\ response' = r.val
          /\ error' = r.err
          /\ pc' = IF r.err = NoError THEN "responded" ELSE "failed"
    /\ UNCHANGED <<payload, request_body, content_type, accept, input_data,
                   forest, prediction>>

Next ==
    \/ ModelFn
    \/ Invoke
    \/ InputFn
    \/ PredictFn
    \/ OutputFn

Spec == Init /\ [][Next]_vars

\* ------------------------------------------------------------------------
\* Properties
\* ------------------------------------------------------------------------
\* the body is no JSON text
Malformed == payload.isstr /\ payload.text \in RawBodies
\* the Python value a body that is JSON text stands for
Sent ==
    IF ~payload.isstr THEN payload.val
    ELSE IF Malformed THEN Null
    ELSE Str(payload.text[1].s)
\* input_fn has run on the request
InputDone == pc \in {"normalized", "predicted", "responded", "failed"}
\* the request carries the JSON text of a Python object, under the supported
\* content type
WellFormed == InputDone /\ ~Malformed /\ content_type = JSON

IsSingle(v) == v.t = "dict" /\ HasKey(v, "features")
IsBatch(v) ==
    /\ v.t = "dict"
    /\ ~HasKey(v, "features")
    /\ HasKey(v, "contacts")
    /\ GetItem(v, "contacts").t = "list"
Features(v) == GetItem(v, "features")
Contacts(v) == GetItem(v, "contacts").a
AllMappings(cs) == \A k \in 1..Len(cs) : cs[k].t = "dict"
IsWellFormedRow(f) ==
    f.t = "list" /\ Len(f.a) = NFeatures /\ \A i \in 1..Len(f.a) : IsNumber(f.a[i])

\* the error categories, by the class of the exception
ParseError(e) == e.cls = "JSONDecodeError"
ValidationError(e) == e.cls = "ValueError"

\* the response as the client reads it: json.loads of the body
Decoded == json_loads(response).val
OptimalHours == GetItem(Decoded, "optimal_hours").a
ConfidenceOut == GetItem(Decoded, "confidence").a

\* C1: a well-formed payload with neither a features nor a contacts key makes
\* input_fn fail with a ValidationError; no matrix, prediction or response is
\* produced for it.
C1_MissingKeysIsValidationError ==
    (WellFormed /\ ~HasKey(Sent, "features") /\ ~HasKey(Sent, "contacts"))
    => /\ pc = "failed"
       /\ ValidationError(error)
       /\ input_data = NoArray
       /\ prediction = NoPrediction
       /\ response = <<>>

\* C2: a body that is no JSON text fails with a ParseError and only such a
\* body does; the error of a parseable payload lacking both keys is a
\* ValidationError and never a ParseError, so no error is in both categories.
C2_ParseErrorDistinct ==
    InputDone =>
       /\ (Malformed /\ content_type = JSON)
            => /\ pc = "failed"
               /\ ParseError(error)
               /\ ~ValidationError(error)
               /\ input_data = NoArray
               /\ response = <<>>
       /\ ParseError(error) => (Malformed /\ content_type = JSON)
       /\ (WellFormed /\ ~HasKey(Sent, "features") /\ ~HasKey(Sent, "contacts"))
            => /\ ~ParseError(error)
               /\ Sent.t = "dict" => ValidationError(error)

C2_Witness ==
    /\ pc = "failed"
    /\ content_type = JSON
    /\ payload.isstr
    /\ request_body = <<Word("not"), Word("json")>>
    /\ error.cls = "JSONDecodeError"

\* C3: for a Batch payload the matrix has one row per contact, row k built
\* from contacts[k]; the response then has one optimal hour and one confidence
\* per contact, entry k being the classifier's answer for contacts[k].
C3_BatchRowsFollowContacts ==
    (WellFormed /\ IsBatch(Sent) /\ AllMappings(Contacts(Sent)))
    => LET cs == Contacts(Sent) IN
       /\ input_data # NoArray
       /\ NRows(input_data) = Len(cs)
       /\ \A k \in 1..Len(cs) :
             RowKey(input_data.data.a[k]) = RowKey(ContactRow(cs[k]))
       /\ pc = "responded"
            => LET hours == OptimalHours
                   conf == ConfidenceOut
               IN
               /\ Len(hours) = Len(cs)
               /\ Len(conf) = Len(cs)
               /\ \A k \in 1..Len(cs) :
                     LET v == forest[RowKey(ContactRow(cs[k]))] IN
                     /\ hours[k] = PyInt(Classes[ArgMax(v)])
                     /\ Tenths(conf[k]) * n_estimators = SeqMax(v) * 10

C3_Witness ==
    /\ pc = "responded"
    /\ IsBatch(Sent)
    /\ Len(Contacts(Sent)) = 2
    /\ Contacts(Sent)[1] # Contacts(Sent)[2]
    /\ OptimalHours[1] # OptimalHours[2]

\* C4: for a well-formed Single payload the matrix has exactly one row, equal
\* to the given triple position by position, whatever the values are.
C4_SingleRowIdentity ==
    (WellFormed /\ IsSingle(Sent) /\ IsWellFormedRow(Features(Sent)))
    => /\ input_data.shape = <<1, NFeatures>>
       /\ \A i \in 1..NFeatures :
             Tenths(input_data.data.a[1].a[i]) = Tenths(Features(Sent).a[i])

C4_Witness ==
    /\ pc = "normalized"
    /\ Sent = Dict(<<Item("features",
                          List(<<PyInt(-2), PyInt(99), PyFloat(15)>>))>>)
    /\ input_data.shape = <<1, NFeatures>>

\* C5: in every response confidence[i] is the maximum of row i of the
\* probabilities and lies in 0.0 .. 1.0, optimal_hours[i] is predictions[i],
\* and both have one entry per row of the input matrix.
C5_ConfidenceIsMaxProbability ==
    /\ pc \in {"predicted", "responded"}
         => /\ Len(prediction.predictions) = NRows(input_data)
            /\ Len(prediction.probabilities) = NRows(input_data)
    /\ pc = "responded"
         => LET hours == OptimalHours
                conf == ConfidenceOut
            IN
            /\ accept = JSON
            /\ Len(hours) = NRows(input_data)
            /\ Len(conf) = NRows(input_data)
            /\ \A i \in 1..NRows(input_data) :
                  LET probs == prediction.probabilities[i] IN
                  /\ conf[i].t = "float"
                  /\ \E c \in 1..Len(probs) :
                        Tenths(conf[i]) = Tenths(probs[c])
                  /\ \A c \in 1..Len(probs) :
                        Tenths(probs[c]) <= Tenths(conf[i])
                  /\ 0 <= Tenths(conf[i])
                  /\ Tenths(conf[i]) <= 10
                  /\ hours[i] = prediction.predictions[i]

\* two rows given the same hour with different confidence
C5_Witness ==
    /\ pc = "responded"
    /\ LET hours == OptimalHours
           conf == ConfidenceOut
       IN \E i, j \in 1..Len(hours) :
             /\ hours[i] = hours[j]
             /\ conf[i] # conf[j]

\* C6: a Batch payload with an empty contacts sequence gives a zero-row
\* matrix, the request never fails, and its response is the empty response.
C6_EmptyBatchGivesEmptyResponse ==
    (WellFormed /\ accept = JSON /\ IsBatch(Sent) /\ Contacts(Sent) = <<>>)
    => /\ pc # "failed"
       /\ NRows(input_data) = 0
       /\ pc = "responded"
            => response = json_dumps(Dict(<<Item("optimal_hours", List(<<>>)),
                                            Item("confidence", List(<<>>))>>))

\* the value of a key of a contact in tenths, or the default when it is absent
FieldTenths(contact, k, default) ==
    IF HasKey(contact, k) THEN Tenths(GetItem(contact, k)) ELSE default

\* C7: in a Batch payload each absent key of a contact is replaced by its
\* default (0, 12, 0.5), each present key keeps its value, and a missing key
\* never makes the request fail.
C7_MissingKeysDefaulted ==
    (WellFormed /\ IsBatch(Sent) /\ AllMappings(Contacts(Sent)))
    => LET cs == Contacts(Sent) IN
       /\ input_data # NoArray
       /\ (Len(cs) >= 1 /\ accept = JSON) => pc # "failed"
       /\ \A k \in 1..Len(cs) :
             LET row == input_data.data.a[k].a IN
             /\ Len(row) = 3
             /\ Tenths(row[1]) = FieldTenths(cs[k], "day_of_week", 0)
             /\ Tenths(row[2]) = FieldTenths(cs[k], "hour_of_day", 120)
             /\ Tenths(row[3]) = FieldTenths(cs[k], "previous_answer_rate", 5)

C7_Witness ==
    /\ pc = "normalized"
    /\ IsBatch(Sent)
    /\ Len(Contacts(Sent)) = 2
    /\ Contacts(Sent)[1] = Dict(<<>>)
    /\ Contacts(Sent)[2] = Dict(<<Item("hour_of_day", PyInt(30))>>)
    /\ RowKey(input_data.data.a[1]) = <<0, 120, 5>>

\* C8: a features value of the wrong structure (no sequence, or a sequence
\* that is not 3 long) is rejected by input_fn with a ValidationError; no
\* matrix is built from it and it never reaches the classifier.
C8_MalformedFeaturesRejected ==
    (WellFormed /\ IsSingle(Sent)
        /\ ~(Features(Sent).t = "list" /\ Len(Features(Sent).a) = NFeatures))
    => /\ pc = "failed"
       /\ ValidationError(error)
       /\ input_data = NoArray
       /\ prediction = NoPrediction

\* C9: an unsupported content type fails whatever the body is, an unsupported
\* accept type fails without a response, and the error is in neither the
\* ParseError nor the ValidationError category.
C9_UnsupportedMediaIsDistinct ==
    /\ (InputDone /\ content_type # JSON)
         => /\ pc = "failed"
            /\ input_data = NoArray
            /\ response = <<>>
            /\ error # NoError
            /\ ~ParseError(error)
            /\ ~ValidationError(error)
    /\ (pc \in {"responded", "failed"} /\ accept # JSON)
         => /\ pc = "failed"
            /\ response = <<>>
            /\ error # NoError
            /\ ~ParseError(error)
            /\ ~ValidationError(error)

\* the number of rows the payload asks for
RowsAsked(v) == IF IsBatch(v) THEN Len(Contacts(v)) ELSE 1

\* C10: a response exists only when the whole matrix was built, classified and
\* formatted, and then has one entry per input row; a request that fails, as
\* one with a contact that is no mapping or a matrix the classifier rejects
\* does, returns nothing.
C10_NoPartialResult ==
    /\ response # <<>>
         => /\ pc = "responded"
            /\ error = NoError
            /\ CheckX(input_data) = NoError
            /\ Len(prediction.predictions) = NRows(input_data)
            /\ Len(OptimalHours) = NRows(input_data)
            /\ Len(ConfidenceOut) = NRows(input_data)
            /\ NRows(input_data) = RowsAsked(Sent)
    /\ pc = "responded" => response # <<>>
    /\ pc = "failed" => (response = <<>> /\ error # NoError)
    /\ (WellFormed /\ IsBatch(Sent) /\ ~AllMappings(Contacts(Sent)))
         => /\ pc = "failed"
            /\ input_data = NoArray
            /\ prediction = NoPrediction
    /\ (InputDone /\ CheckX(input_data) # NoError)
         => /\ pc \in {"normalized", "failed"}
            /\ prediction = NoPrediction

C10_Witness ==
    /\ pc = "failed"
    /\ IsBatch(Sent)
    /\ Len(Contacts(Sent)) = 2
    /\ Contacts(Sent)[1].t = "dict"
    /\ Contacts(Sent)[2] = PyInt(7)
    /\ error.cls = "AttributeError"
    /\ response = <<>>

====
